---- MODULE Spec2Model ----
(***************************************************************************)
(* A model of `midnight-ai review <file> --fix` (src/main.py):             *)
(* review_command reads the file, get_ai_fixes asks the AI collaborator    *)
(* for a JSON array of line-addressed fixes, apply_fixes splices them into *)
(* a copy of the file's lines, shows a diff, asks for confirmation and     *)
(* writes the file.                                                        *)
(*                                                                         *)
(* A text is a sequence of one-character strings; a line is a text that    *)
(* holds its own terminator.  A fix is a Python dict parsed from JSON: a   *)
(* function whose DOMAIN is the set of keys the AI supplied.  A line       *)
(* number is a tagged JSON value, [type |-> "int" | "str", v |-> n], so    *)
(* that a candidate with a non-integer line number can be told apart.      *)
(***************************************************************************)
EXTENDS Integers, Sequences, FiniteSets, TLC

\* Bounds of the explored inputs.
MaxLines == 3
MaxFixes == 2

NL == "\n"

Letters == <<"a", "b", "c", "d", "e">>

-----------------------------------------------------------------------------
(* Python built-ins used by apply_fixes *)

\* s.endswith('\n')
EndsWithNL(s) == Len(s) > 0 /\ s[Len(s)] = NL

\* Splitting a text into lines that keep their line ends: what both
\* str.splitlines(True) and file.readlines() do on texts whose only line
\* boundary character is '\n'.
RECURSIVE SplitKeepEnds(_, _, _)
SplitKeepEnds(s, i, cur) ==
  IF i > Len(s)
    THEN IF cur = <<>> THEN <<>> ELSE <<cur>>
    ELSE IF s[i] = NL
           THEN <<Append(cur, s[i])>> \o SplitKeepEnds(s, i + 1, <<>>)
           ELSE SplitKeepEnds(s, i + 1, Append(cur, s[i]))

\* fix['suggestedCode'].splitlines(True)
splitlines(s) == SplitKeepEnds(s, 1, <<>>)

\* f.readlines()
readlines(text) == SplitKeepEnds(text, 1, <<>>)

\* f.writelines(lines): the concatenation of the lines
RECURSIVE writelines(_)
writelines(lines) ==
  IF lines = <<>> THEN <<>> ELSE Head(lines) \o writelines(Tail(lines))

\* How a Python slice bound i is normalised against a list of length n.
ClampIdx(i, n) ==
  IF i < 0
    THEN (IF i + n < 0 THEN 0 ELSE i + n)
    ELSE (IF i > n THEN n ELSE i)

\* lst[start:stop] = repl   (0-based, stop exclusive, Python semantics)
SliceAssign(lst, start, stop, repl) ==
  LET lo  == ClampIdx(start, Len(lst))
      hi0 == ClampIdx(stop, Len(lst))
      hi  == IF hi0 < lo THEN lo ELSE hi0
  IN  SubSeq(lst, 1, lo) \o repl \o SubSeq(lst, hi + 1, Len(lst))

\* lst[i] raises IndexError unless -len <= i < len
IndexOk(lst, i) == i >= -Len(lst) /\ i < Len(lst)
ListGet(lst, i) == IF i < 0 THEN lst[i + Len(lst) + 1] ELSE lst[i + 1]

\* sorted(fixes, key=lambda x: x['lineNumber'], reverse=True), on integer
\* keys: stable, so fixes with equal line numbers keep their list order.
RECURSIVE InsertDesc(_, _)
InsertDesc(sorted, f) ==
  IF sorted = <<>> THEN <<f>>
  ELSE IF Head(sorted).lineNumber.v >= f.lineNumber.v
         THEN <<Head(sorted)>> \o InsertDesc(Tail(sorted), f)
         ELSE <<f>> \o sorted

RECURSIVE SortedDesc(_)
SortedDesc(fixes) ==
  IF fixes = <<>> THEN <<>>
  ELSE InsertDesc(SortedDesc(SubSeq(fixes, 1, Len(fixes) - 1)), fixes[Len(fixes)])

\* The sort raises KeyError when a fix has no 'lineNumber' and TypeError when
\* it has to compare an integer with a non-integer.
SortRaises(fixes) ==
  \/ \E i \in 1..Len(fixes) : "lineNumber" \notin DOMAIN fixes[i]
  \/ \E i, j \in 1..Len(fixes) : fixes[i].lineNumber.type # fixes[j].lineNumber.type

-----------------------------------------------------------------------------
(* The body of the loop of apply_fixes *)

\* start = fix['lineNumber'] - 1
StartOf(fix) == fix.lineNumber.v - 1

\* end = fix.get('endLineNumber', start + 1) - 1
EndOf(fix) ==
  IF "endLineNumber" \in DOMAIN fix
    THEN fix.endLineNumber.v - 1
    ELSE (StartOf(fix) + 1) - 1

\* The replacement lines needing the newline fix-up: a non-empty replacement
\* whose last line has no '\n'.  Only then is original_code_lines[end] read.
NeedsLookup(replacement) ==
  replacement # <<>> /\ ~EndsWithNL(replacement[Len(replacement)])

\* FixupNewline without the test of the original line
FixupNewline_Always(replacement, origLine) ==
  IF NeedsLookup(replacement)
    THEN [replacement EXCEPT ![Len(replacement)] = Append(@, NL)]
    ELSE replacement

\* if replacement and not replacement[-1].endswith('\n')
\*    and original_code_lines[end].endswith('\n'): replacement[-1] += '\n'
FixupNewline(replacement, origLine) ==
  IF NeedsLookup(replacement) /\ EndsWithNL(origLine)
    THEN [replacement EXCEPT ![Len(replacement)] = Append(@, NL)]
    ELSE replacement

\* One iteration raises: TypeError on a non-integer line number, KeyError on
\* a missing 'suggestedCode', IndexError on original_code_lines[end].
FixRaises(fix, original) ==
  \/ fix.lineNumber.type # "int"
  \/ "suggestedCode" \notin DOMAIN fix
  \/ /\ NeedsLookup(splitlines(fix.suggestedCode))
     /\ ~IndexOk(original, EndOf(fix))

\* One iteration that does not raise:
\* modified_code_lines[start : end + 1] = replacement
ApplyOne(modified, fix, original) ==
  LET split == splitlines(fix.suggestedCode)
      replacement ==
        IF NeedsLookup(split)
          THEN FixupNewline(split, ListGet(original, EndOf(fix)))
          ELSE split
  IN  SliceAssign(modified, StartOf(fix), EndOf(fix) + 1, replacement)

\* The loop over the sorted fixes.
RECURSIVE ApplyAll(_, _, _)
ApplyAll(modified, todo, original) ==
  IF todo = <<>> THEN [raised |-> FALSE, lines |-> modified]
  ELSE IF FixRaises(Head(todo), original)
         THEN [raised |-> TRUE, lines |-> <<>>]
         ELSE ApplyAll(ApplyOne(modified, Head(todo), original), Tail(todo), original)

\* PatchLines without the sort: the fixes are applied in list order
PatchLines_Unsorted(original, fixes) ==
  IF SortRaises(fixes)
    THEN [raised |-> TRUE, lines |-> <<>>]
    ELSE ApplyAll(original, fixes, original)

\* Lines 77-86: the patched copy of the lines, or the exception.
PatchLines(original, fixes) ==
  IF SortRaises(fixes)
    THEN [raised |-> TRUE, lines |-> <<>>]
    ELSE ApplyAll(original, SortedDesc(fixes), original)

-----------------------------------------------------------------------------
(* Inputs *)

JInt(n) == [type |-> "int", v |-> n]
JStr(n) == [type |-> "str", v |-> n]

\* The file: n lines "a\n", "b\n", ..., the last one with or without '\n'.
RECURSIVE DocText(_, _, _)
DocText(i, n, lastNL) ==
  IF i > n THEN <<>>
  ELSE <<Letters[i]>> \o (IF i < n \/ lastNL THEN <<NL>> ELSE <<>>)
       \o DocText(i + 1, n, lastNL)

DiskTexts == { DocText(1, n, b) : n \in 1..MaxLines, b \in BOOLEAN }

\* Replacement texts: a deletion, an unterminated line, two terminated lines.
Texts == { <<>>, <<"X">>, <<"Y", NL, "Z", NL>> }

\* Candidates with an integer line number from 0 to one past the last line,
\* covering one line (no 'endLineNumber') or two (endLineNumber = lineNumber + 1).
RangeFixes ==
  { [lineNumber |-> JInt(s), suggestedCode |-> t] :
      s \in 0..(MaxLines + 1), t \in Texts }
  \cup
  { [lineNumber |-> JInt(s), endLineNumber |-> JInt(s + 1), suggestedCode |-> t] :
      s \in 0..(MaxLines + 1), t \in Texts }

\* Candidates that also carry 'originalCode'; the file's first line is "a\n",
\* so the candidate for line 1 is current when the file has it terminated and
\* every other one is stale.
OrigFixes ==
  { [lineNumber |-> JInt(s), endLineNumber |-> JInt(s),
     originalCode |-> <<"a", NL>>, suggestedCode |-> <<"X", NL>>] : s \in 1..MaxLines }

\* Malformed candidates.
MalformedFixes ==
  { [suggestedCode |-> <<"X">>],
    [lineNumber |-> JInt(1)],
    [lineNumber |-> JStr(1), suggestedCode |-> <<"X">>] }

Fixes == RangeFixes \cup OrigFixes \cup MalformedFixes

FixLists == UNION { [1..k -> Fixes] : k \in 0..MaxFixes }

\* What response.text can be: the empty string, a bare JSON array, a JSON
\* array inside a ```json fence, or text that is not JSON.
AiTexts ==
  { [form |-> "empty", fixes |-> <<>>], [form |-> "garbage", fixes |-> <<>>],
    [form |-> "fenced", fixes |-> <<>>] }
  \cup { [form |-> "bare", fixes |-> fs] : fs \in FixLists }

\* The Python literal "[]"
EmptyArrayText == [form |-> "bare", fixes |-> <<>>]

-----------------------------------------------------------------------------
(* State *)

VARIABLES
  pc,                    \* position in review_command / apply_fixes
  exists,                \* whether file_path names a readable file
  disk,                  \* content of the file at file_path
  disk0,                 \* content of the file when the command started
  code,                  \* review_command: code
  review_data_str,       \* review_command: review_data_str
  fixes,                 \* apply_fixes: fixes
  original_code_lines,   \* apply_fixes: original_code_lines
  modified_code_lines,   \* apply_fixes: modified_code_lines
  console,               \* what console.print and Confirm.ask have shown
  shown,                 \* the two line sequences given to unified_diff
  asks,                  \* number of calls of Confirm.ask
  writes,                \* number of times the file was opened for writing
  answer                 \* how Confirm.ask ended

vars == <<pc, exists, disk, disk0, code, review_data_str, fixes,
          original_code_lines, modified_code_lines, console, shown, asks,
          writes, answer>>

Init ==
  /\ pc = "start"
  /\ exists \in BOOLEAN
  /\ disk \in DiskTexts
  /\ disk0 = disk
  /\ code = <<>>
  /\ review_data_str = [form |-> "empty", fixes |-> <<>>]
  /\ fixes = <<>>
  /\ original_code_lines = <<>>
  /\ modified_code_lines = <<>>
  /\ console = <<>>
  /\ shown = <<>>
  /\ asks = 0
  /\ writes = 0
  /\ answer = "none"

\* review_command, lines 186-192
ReadFile ==
  /\ pc = "start"
  /\ IF exists
       THEN /\ code' = disk
            /\ console' = Append(console, "analyzing")
            /\ pc' = "read"
       ELSE /\ code' = code
            /\ console' = console \o <<"analyzing", "file_not_found">>
            /\ pc' = "done"
  /\ UNCHANGED <<exists, disk, disk0, review_data_str, fixes, original_code_lines,
                 modified_code_lines, shown, asks, writes, answer>>

\* get_ai_fixes: the model answers with some text
AiAnswers ==
  /\ pc = "read"
  /\ \E t \in AiTexts : review_data_str' = t
  /\ pc' = "reviewed"
  /\ UNCHANGED <<exists, disk, disk0, code, fixes, original_code_lines,
                 modified_code_lines, console, shown, asks, writes, answer>>

\* get_ai_fixes, lines 53-64: generate_content raises
AiFails ==
  /\ pc = "read"
  /\ review_data_str' = EmptyArrayText
  /\ console' = Append(console, "ai_error")
  /\ pc' = "reviewed"
  /\ UNCHANGED <<exists, disk, disk0, code, fixes, original_code_lines,
                 modified_code_lines, shown, asks, writes, answer>>

\* review_command, lines 196-208
ParseReview ==
  /\ pc = "reviewed"
  /\ IF review_data_str.form = "empty" \/ review_data_str = EmptyArrayText
       THEN /\ console' = Append(console, "could_not_get_review")
            /\ pc' = "done"
            /\ fixes' = fixes
       ELSE IF review_data_str.form = "garbage"
              THEN /\ console' = Append(console, "json_error")
                   /\ pc' = "done"
                   /\ fixes' = fixes
              ELSE /\ fixes' = review_data_str.fixes
                   /\ console' = console
                   /\ pc' = "apply"
  /\ UNCHANGED <<exists, disk, disk0, code, review_data_str, original_code_lines,
                 modified_code_lines, shown, asks, writes, answer>>

\* apply_fixes, lines 70-86
Patch ==
  /\ pc = "apply"
  /\ IF fixes = <<>>
       THEN /\ console' = Append(console, "no_issues")
            /\ pc' = "done"
            /\ UNCHANGED <<original_code_lines, modified_code_lines>>
       ELSE LET orig == readlines(disk)
                res  == PatchLines(orig, fixes)
            IN  /\ original_code_lines' = orig
                /\ IF res.raised
                     THEN /\ console' = Append(console, "traceback")
                          /\ pc' = "done"
                          /\ modified_code_lines' = modified_code_lines
                     ELSE /\ console' = console
                          /\ pc' = "patched"
                          /\ modified_code_lines' = res.lines
  /\ UNCHANGED <<exists, disk, disk0, code, review_data_str, fixes, shown, asks,
                 writes, answer>>

\* apply_fixes, lines 88-98: the diff is printed and Confirm.ask is called
ShowDiffAndAsk ==
  /\ pc = "patched"
  /\ shown' = <<original_code_lines, modified_code_lines>>
  /\ console' = console \o <<"diff", "prompt">>
  /\ asks' = asks + 1
  /\ pc' = "asking"
  /\ UNCHANGED <<exists, disk, disk0, code, review_data_str, fixes,
                 original_code_lines, modified_code_lines, writes, answer>>

\* AnswerYes with the wrong list written back
AnswerYes_WritesOriginal ==
  /\ pc = "asking"
  /\ answer' = "yes"
  /\ disk' = writelines(original_code_lines)
  /\ writes' = writes + 1
  /\ console' = Append(console, "applied")
  /\ pc' = "done"
  /\ UNCHANGED <<exists, disk0, code, review_data_str, fixes, original_code_lines,
                 modified_code_lines, shown, asks>>

\* apply_fixes, lines 98-101
AnswerYes ==
  /\ pc = "asking"
  /\ answer' = "yes"
  /\ disk' = writelines(modified_code_lines)
  /\ writes' = writes + 1
  /\ console' = Append(console, "applied")
  /\ pc' = "done"
  /\ UNCHANGED <<exists, disk0, code, review_data_str, fixes, original_code_lines,
                 modified_code_lines, shown, asks>>

\* AnswerNo with the write moved in front of the test of the answer
AnswerNo_WritesAnyway ==
  /\ pc = "asking"
  /\ answer' = "no"
  /\ disk' = writelines(modified_code_lines)
  /\ writes' = writes + 1
  /\ console' = Append(console, "aborted")
  /\ pc' = "done"
  /\ UNCHANGED <<exists, disk0, code, review_data_str, fixes,
                 original_code_lines, modified_code_lines, shown, asks>>

\* apply_fixes, lines 102-103
AnswerNo ==
  /\ pc = "asking"
  /\ answer' = "no"
  /\ console' = Append(console, "aborted")
  /\ pc' = "done"
  /\ UNCHANGED <<exists, disk, disk0, code, review_data_str, fixes,
                 original_code_lines, modified_code_lines, shown, asks, writes>>

\* KeyboardInterrupt while Confirm.ask waits: nothing in review_command
\* catches it
Interrupt ==
  /\ pc = "asking"
  /\ answer' = "interrupt"
  /\ console' = Append(console, "traceback")
  /\ pc' = "done"
  /\ UNCHANGED <<exists, disk, disk0, code, review_data_str, fixes,
                 original_code_lines, modified_code_lines, shown, asks, writes>>

Next ==
  \/ ReadFile
  \/ AiAnswers
  \/ AiFails
  \/ ParseReview
  \/ Patch
  \/ ShowDiffAndAsk
  \/ AnswerYes
  \/ AnswerNo
  \/ Interrupt

Spec == Init /\ [][Next]_vars

-----------------------------------------------------------------------------
(* Vocabulary of the properties *)

Range(seq) == { seq[i] : i \in 1..Len(seq) }

\* apply_fixes got a non-empty list and its loop has been run
AfterApply == pc \in {"patched", "asking"} \/ (pc = "done" /\ fixes # <<>>)

\* ... and the loop ended without an exception
Patched == pc \in {"patched", "asking"} \/ answer # "none"

\* The messages that end a failed run
FailureOutcomes ==
  {"file_not_found", "could_not_get_review", "json_error", "traceback"}

Last(s) == s[Len(s)]

-----------------------------------------------------------------------------
\* C1: the file is written only after the confirmation prompt has returned
\* yes.  While the answer is anything else (no answer yet because an earlier
\* step failed or is still running, a declined prompt, an interrupted prompt)
\* the file has not been opened for writing and its content is the content it
\* had when the command started.
C1_WriteOnlyAfterYes ==
  /\ answer # "yes" => (writes = 0 /\ disk = disk0)
  /\ writes > 0 => (answer = "yes" /\ asks = 1)

\* A run that produced a patch different from the file, was declined and left
\* the file alone.
C1_Witness ==
  /\ pc = "done" /\ answer = "no"
  /\ writelines(modified_code_lines) # disk0
  /\ disk = disk0

\* C7: for a non-empty list whose application completes, the diff is shown
\* before the prompt, the prompt is called exactly once, yes writes the file
\* exactly once with exactly the lines that were previewed, no writes nothing
\* and ends with the "aborted" message, which is not a failure message.
C7_PreviewAskCommit ==
  /\ (AfterApply /\ Patched /\ pc # "patched") => asks = 1
  /\ pc = "asking" =>
       /\ writes = 0
       /\ Len(console) >= 2
       /\ console[Len(console) - 1] = "diff"
       /\ console[Len(console)] = "prompt"
       /\ shown = <<readlines(disk0), modified_code_lines>>
  /\ (pc = "done" /\ answer = "yes") =>
       /\ asks = 1 /\ writes = 1
       /\ disk = writelines(shown[2])
       /\ Last(console) = "applied"
  /\ (pc = "done" /\ answer = "no") =>
       /\ asks = 1 /\ writes = 0
       /\ disk = disk0
       /\ Last(console) = "aborted"
       /\ Last(console) \notin FailureOutcomes

\* A confirmed run whose write changed the file.
C7_Witness ==
  /\ pc = "done" /\ answer = "yes" /\ writes = 1
  /\ disk # disk0
  /\ disk = writelines(modified_code_lines)

-----------------------------------------------------------------------------
(* Edits as the specification speaks of them: 1-based inclusive ranges *)

WellFormed(fix) ==
  /\ "lineNumber" \in DOMAIN fix
  /\ fix.lineNumber.type = "int"
  /\ "suggestedCode" \in DOMAIN fix

StartLine(fix) == fix.lineNumber.v
EndLine(fix) ==
  IF "endLineNumber" \in DOMAIN fix THEN fix.endLineNumber.v ELSE fix.lineNumber.v

InRange(fix, lineCount) ==
  /\ 1 <= StartLine(fix)
  /\ StartLine(fix) <= EndLine(fix)
  /\ EndLine(fix) <= lineCount

Overlap(f, g) == StartLine(f) <= EndLine(g) /\ StartLine(g) <= EndLine(f)

\* 1 <= startLine <= endLine <= lineCount for every edit, pairwise disjoint
ValidEditSet(fs, lineCount) ==
  /\ \A i \in 1..Len(fs) : WellFormed(fs[i]) /\ InRange(fs[i], lineCount)
  /\ \A i, j \in 1..Len(fs) : i # j => ~Overlap(fs[i], fs[j])

\* The naive reference: the edits are taken one at a time in the order of the
\* list; each is spliced into the working copy at its current indices, its
\* last replacement line taking the terminator of the working line at its
\* current endLine; then the indices of every remaining edit that lies behind
\* the splice are recomputed.
Shifted(fix, by) ==
  [k \in DOMAIN fix |->
     IF k \in {"lineNumber", "endLineNumber"}
       THEN [type |-> fix[k].type, v |-> fix[k].v + by]
       ELSE fix[k]]

RECURSIVE NaiveApply(_, _)
NaiveApply(working, todo) ==
  IF todo = <<>> THEN working
  ELSE LET fix   == Head(todo)
           s     == StartLine(fix)
           e     == EndLine(fix)
           split == splitlines(fix.suggestedCode)
           repl  == IF split # <<>> /\ ~EndsWithNL(Last(split)) /\ EndsWithNL(working[e])
                      THEN [split EXCEPT ![Len(split)] = Append(@, NL)]
                      ELSE split
           by    == Len(repl) - (e - s + 1)
           rest  == [i \in 1..(Len(todo) - 1) |->
                       IF StartLine(todo[i + 1]) > e
                         THEN Shifted(todo[i + 1], by)
                         ELSE todo[i + 1]]
       IN  NaiveApply(SubSeq(working, 1, s - 1) \o repl
                        \o SubSeq(working, e + 1, Len(working)), rest)

\* The scenario of the specification
ScenarioDoc == << <<"a", NL>>, <<"b", NL>>, <<"c", NL>> >>
ScenarioEdits ==
  << [lineNumber |-> JInt(1), endLineNumber |-> JInt(1), suggestedCode |-> <<"X", NL>>],
     [lineNumber |-> JInt(2), endLineNumber |-> JInt(3),
      suggestedCode |-> <<"Y", NL, "Z", NL>>] >>
ScenarioPatched == << <<"X", NL>>, <<"Y", NL>>, <<"Z", NL>> >>

\* C2: for edits with 1 <= startLine <= endLine <= lineCount that do not
\* overlap, the lines apply_fixes produces (descending sort, splices at the
\* original indices) are the lines the naive reference produces; and the
\* scenario [a,b,c] with {1,1,X} and {2,3,Y Z} yields [X,Y,Z].
C2_DescendingEqualsNaive ==
  /\ (Patched /\ ValidEditSet(fixes, Len(original_code_lines))) =>
       modified_code_lines = NaiveApply(original_code_lines, fixes)
  /\ (pc = "patched" /\ original_code_lines = ScenarioDoc
        /\ Len(fixes) = 2 /\ ValidEditSet(fixes, 3)
        /\ \A i \in 1..2 : /\ StartLine(fixes[i]) = StartLine(ScenarioEdits[i])
                           /\ EndLine(fixes[i]) = EndLine(ScenarioEdits[i])
                           /\ fixes[i].suggestedCode = ScenarioEdits[i].suggestedCode) =>
       modified_code_lines = ScenarioPatched

\* Two disjoint edits given in ascending order, the first of which changes the
\* number of lines, have been applied.
C2_Witness ==
  /\ pc = "patched"
  /\ Len(fixes) = 2
  /\ ValidEditSet(fixes, Len(original_code_lines))
  /\ StartLine(fixes[1]) < StartLine(fixes[2])
  /\ Len(splitlines(fixes[1].suggestedCode)) # EndLine(fixes[1]) - StartLine(fixes[1]) + 1
  /\ Len(modified_code_lines) # Len(original_code_lines)

\* C5: in a document whose last line has no trailing newline, patched with a
\* valid non-overlapping edit set: when no edit covers the last line, the last
\* patched line is the original last line, still without a newline; when an
\* edit covers the last line and its non-empty replacement text does not end
\* in a newline, the last patched line has no newline.
C5_LastLineTerminator ==
  (/\ Patched
   /\ ValidEditSet(fixes, Len(original_code_lines))
   /\ ~EndsWithNL(Last(original_code_lines)))
  =>
  LET n == Len(original_code_lines)
      touching == { i \in 1..Len(fixes) : EndLine(fixes[i]) = n }
  IN  /\ touching = {} =>
            /\ modified_code_lines # <<>>
            /\ Last(modified_code_lines) = Last(original_code_lines)
            /\ ~EndsWithNL(Last(modified_code_lines))
      /\ \A i \in touching :
            (fixes[i].suggestedCode # <<>> /\ ~EndsWithNL(fixes[i].suggestedCode)) =>
               /\ modified_code_lines # <<>>
               /\ ~EndsWithNL(Last(modified_code_lines))

\* The unterminated last line was replaced by unterminated text while another
\* edit replaced an earlier, terminated line.
C5_Witness ==
  /\ pc = "patched"
  /\ Len(fixes) = 2
  /\ ValidEditSet(fixes, Len(original_code_lines))
  /\ ~EndsWithNL(Last(original_code_lines))
  /\ \E i \in 1..2 :
       /\ EndLine(fixes[i]) = Len(original_code_lines)
       /\ fixes[i].suggestedCode = <<"X">>
  /\ Last(modified_code_lines) = <<"X">>

-----------------------------------------------------------------------------
(* What the specification's Edit Normalizer would let through *)

\* The well-formed candidates whose range lies inside the document
InRangeOnly(fs, lineCount) ==
  SelectSeq(fs, LAMBDA f : WellFormed(f) => InRange(f, lineCount))

WellFormedOnly(fs) == SelectSeq(fs, WellFormed)

\* A text without its final newline
Chomp(t) == IF EndsWithNL(t) THEN SubSeq(t, 1, Len(t) - 1) ELSE t

\* A candidate whose 'originalCode' is not the text of the lines of its
\* range, a final newline on either side not counting
Stale(fix, original) ==
  /\ "originalCode" \in DOMAIN fix
  /\ WellFormed(fix) /\ InRange(fix, Len(original))
  /\ Chomp(fix.originalCode) #
       Chomp(writelines(SubSeq(original, StartLine(fix), EndLine(fix))))

\* C3: a candidate whose startLine is below 1 or above the line count, or
\* whose endLine is above the line count, is rejected and contributes
\* nothing: the run goes on, and the patched lines are those obtained from
\* the remaining edits alone (endLine is not clamped).  The report of the
\* rejection is left out of the formula: no message of the program names a
\* rejected candidate.
C3_OutOfRangeRejected ==
  (/\ AfterApply
   /\ \A i \in 1..Len(fixes) : WellFormed(fixes[i]) /\ StartLine(fixes[i]) <= EndLine(fixes[i])
   /\ \E i \in 1..Len(fixes) : ~InRange(fixes[i], Len(original_code_lines))
   /\ ValidEditSet(InRangeOnly(fixes, Len(original_code_lines)), Len(original_code_lines)))
  =>
  /\ Patched
  /\ modified_code_lines =
       PatchLines(original_code_lines, InRangeOnly(fixes, Len(original_code_lines))).lines

\* C4: of two edits with overlapping ranges exactly one is applied, the one
\* with the lower startLine; the other is rejected, and the patched lines are
\* the result of the kept edit alone.
C4_OverlapKeepsLower ==
  (/\ AfterApply
   /\ Len(fixes) = 2
   /\ \A i \in 1..2 : WellFormed(fixes[i]) /\ InRange(fixes[i], Len(original_code_lines))
   /\ Overlap(fixes[1], fixes[2])
   /\ StartLine(fixes[1]) # StartLine(fixes[2]))
  =>
  LET kept == IF StartLine(fixes[1]) < StartLine(fixes[2]) THEN fixes[1] ELSE fixes[2]
  IN  /\ Patched
      /\ modified_code_lines = PatchLines(original_code_lines, <<kept>>).lines
    
\* C6: a malformed candidate (no line number, no replacement text, a
\* non-integer line number) is dropped alone: the well-formed candidates of
\* the list are applied and the run reaches the preview and the prompt.
C6_MalformedDroppedAlone ==
  (/\ AfterApply
   /\ \E i \in 1..Len(fixes) : ~WellFormed(fixes[i])
   /\ WellFormedOnly(fixes) # <<>>
   /\ ValidEditSet(WellFormedOnly(fixes), Len(original_code_lines)))
  =>
  /\ Patched
  /\ modified_code_lines = PatchLines(original_code_lines, WellFormedOnly(fixes)).lines
  /\ pc = "done" => asks = 1

\* C8: an edit whose 'originalCode' does not match the current content of
\* the lines of its range is rejected, and those lines stay as they were in
\* the patched document.
C8_StaleEditRejected ==
  (/\ AfterApply
   /\ ValidEditSet(fixes, Len(original_code_lines))
   /\ \E i \in 1..Len(fixes) : Stale(fixes[i], original_code_lines))
  =>
  /\ Patched
  /\ modified_code_lines =
       PatchLines(original_code_lines,
                  SelectSeq(fixes, LAMBDA f : ~Stale(f, original_code_lines))).lines

\* C9: when the AI returns an empty list of edits the run ends with the
\* "no applicable changes" outcome, which is no error outcome and in
\* particular not the outcome of a failed AI call; nothing is asked, nothing
\* is written.
C9_EmptyListIsNotAnError ==
  (/\ pc = "done"
   /\ "ai_error" \notin Range(console)
   /\ review_data_str.form \in {"bare", "fenced"}
   /\ review_data_str.fixes = <<>>)
  =>
  /\ Last(console) = "no_issues"
  /\ Last(console) \notin FailureOutcomes
  /\ asks = 0 /\ writes = 0 /\ disk = disk0

\* Every line but the last ends with a newline
AllButLastTerminated(lines) ==
  \A i \in 1..(Len(lines) - 1) : EndsWithNL(lines[i])

\* C10: the loaded lines all end with a newline except possibly the last;
\* after apply_fixes has spliced in any list of edits without raising, the
\* patched lines still do.
C10_TerminatorsPreserved ==
  (Patched /\ AllButLastTerminated(original_code_lines)) =>
    AllButLastTerminated(modified_code_lines)
====
